---- MODULE Spec2Model ----
(***************************************************************************)
(* A model of the four klaas command-line scripts:                         *)
(*   apply_regression_model, split_data, train_energy_regressor and        *)
(*   apply_separation_model.                                               *)
(* One behaviour is one run of one script (cmd); the inputs of the run     *)
(* (configuration, data table, options) are chosen in the initial state.   *)
(***************************************************************************)
EXTENDS Integers, Sequences, FiniteSets, TLC

VARIABLES
    cmd,              \* the script that runs
    pc,               \* position of the run inside main()
    config,           \* the parsed yaml configuration
    table,            \* rows of the input table, one tuple of feature values per row
    chunksize,        \* -N option, 0 when the option is not given (None)
    yes,              \* -y flag
    answer,           \* what the user answered to the overwrite prompt
    model,            \* content of the pickled model bundle at model_path
    f,                \* datasets under f[key] of the data file: name -> values
    f0,               \* the datasets the data file held when the run started
    model_loaded,     \* joblib.load(model_path) was executed
    n_chunks,         \* chunks yielded by df_generator so far
    end,              \* `end` of the last chunk yielded
    predict_columns,  \* the columns last passed to the model for prediction
    fraction,         \* split_data: --fraction values, numerators over FracDen
    n_total,          \* split_data: len(data) of the input
    num_events,       \* split_data: rows requested per part
    data,             \* split_data: the remaining pool (row identities)
    parts,            \* split_data: written output files, one per processed part
    data_read,        \* train: read_data was executed
    n_fits,           \* train: calls of regressor.fit so far
    fold,             \* train: cross validation folds completed
    cv_predictions,   \* train: the frames of the folds completed
    predictions_file, \* train: content of predictions_path (<<>> until written)
    model_file,       \* train: content of model_path (<<>> until written)
    existing_checked  \* apply_separation_model: check_existing_column was executed

vars == <<cmd, pc, config, table, chunksize, yes, answer, model, f, f0,
          model_loaded, n_chunks, end, predict_columns, fraction, n_total,
          num_events, data, parts, data_read, n_fits, fold, cv_predictions, predictions_file,
          model_file,
          existing_checked>>

runVars == <<cmd, config, table, chunksize, yes, model, f0>>
splitVars == <<fraction, n_total, num_events, data, parts>>
trainVars == <<data_read, n_fits, fold, cv_predictions, predictions_file, model_file>>

(***************************************************************************)
(* Bounds of the model.                                                    *)
(***************************************************************************)
MaxRows == 3        \* longest input table of the apply scripts
MaxChunkSize == 3   \* largest -N value
MaxOldRows == 1     \* longest pre-existing prediction dataset
MaxTotal == 4       \* most rows of the input of split_data
MaxParts == 3       \* most --fraction/--name pairs
FracBits == 2       \* fractions are multiples of 1 / 2^FracBits

(***************************************************************************)
(* Floating point values.  A finite number is the fraction n/d; Big is a   *)
(* finite float64 beyond the float32 range.                                *)
(***************************************************************************)
Frac(a, b) == [k |-> "fin", n |-> a, d |-> b]
Fin(x) == Frac(x, 1)
Big == [k |-> "big", n |-> 0, d |-> 1]
NaN == [k |-> "nan", n |-> 0, d |-> 1]
Inf == [k |-> "inf", n |-> 0, d |-> 1]

IsFinite(x) == x.k = "fin"

RECURSIVE SumSeq(_)
SumSeq(s) == IF s = <<>> THEN 0 ELSE Head(s) + SumSeq(Tail(s))

Min(a, b) == IF a < b THEN a ELSE b

(***************************************************************************)
(* Column names.  NameOrder is the alphabetical order python's sorted()    *)
(* gives to the names used here.                                           *)
(***************************************************************************)
NameOrder == <<"area", "ratio", "size", "theta", "width">>

Sorted(S) == SelectSeq(NameOrder, LAMBDA n : n \in S)

Range(s) == {s[i] : i \in DOMAIN s}

\* ..features: the features that depend on the reconstructed source position
SourceDependentFeatures == {"theta"}

\* ..features.find_used_source_features(training_variables, generation_config)
find_used_source_features(training_variables, generation_config) ==
    (Range(training_variables)
        \cup UNION {g.needed_keys : g \in Range(generation_config)})
    \cap SourceDependentFeatures

\* KlaasConfig.columns_to_read: the training variables and the needed keys
columns_to_read(cfg) ==
    Range(cfg.training_variables)
        \cup UNION {g.needed_keys : g \in Range(cfg.feature_generation)}

\* ..features.has_source_dependent_columns(columns)
has_source_dependent_columns(columns) ==
    columns \cap SourceDependentFeatures # {}

(***************************************************************************)
(* Configurations.  feature_generation is <<>> when the yaml file has no   *)
(* such block and a one-element tuple holding the block otherwise.         *)
(***************************************************************************)
NoGeneration == <<>>
Generation(keys, feats) == <<[needed_keys |-> keys, features |-> feats]>>

Config(tv, lt, gen, ncv) ==
    [training_variables |-> tv, log_target |-> lt, feature_generation |-> gen,
     n_cross_validations |-> ncv]

Configs ==
    { Config(<<"size", "width">>, FALSE, NoGeneration, 2),
      Config(<<"width", "size">>, TRUE, NoGeneration, 3),
      Config(<<"size", "theta">>, FALSE, NoGeneration, 2),
      Config(<<"width", "size">>, FALSE, Generation({"size", "width"}, {}), 2),
      Config(<<"size", "width">>, FALSE, Generation({"size", "width"}, {"area"}), 2),
      Config(<<"width", "size">>, TRUE, Generation({"size", "width"}, {"ratio", "area"}), 3),
      Config(<<"size", "width">>, FALSE, Generation({"theta"}, {"ratio"}), 2) }

(***************************************************************************)
(* Input tables: every row holds one value per training variable.          *)
(***************************************************************************)
SampleRows ==
    { <<Fin(1), Fin(2)>>, <<Fin(2), Fin(1)>>, <<NaN, Fin(1)>>,
      <<Fin(2), Inf>>, <<Big, Fin(1)>> }

RECURSIVE SeqsUpTo(_, _)
SeqsUpTo(S, n) ==
    IF n = 0 THEN {<<>>}
    ELSE LET shorter == SeqsUpTo(S, n - 1)
         IN  shorter \cup {Append(s, x) : s \in {t \in shorter : Len(t) = n - 1}, x \in S}

Tables == SeqsUpTo(SampleRows, MaxRows)

(***************************************************************************)
(* ..preprocessing (float32 conversion and the valid-row mask).            *)
(***************************************************************************)
\* astype(float32): a finite float64 beyond the float32 range becomes inf
ToFloat32(x) == IF x.k = "big" THEN Inf ELSE x

convert_to_float32(df) ==
    [i \in DOMAIN df |-> [j \in DOMAIN df[i] |-> ToFloat32(df[i][j])]]

\* boolean mask: TRUE for the rows none of whose values is NaN or inf
check_valid_rows(df) ==
    [i \in DOMAIN df |-> \A j \in DOMAIN df[i] : IsFinite(df[i][j])]

(***************************************************************************)
(* The model bundle.  A tree is a pair of weights: it predicts             *)
(* w[1]*x[1] + w[2]*x[2] for the row x.                                    *)
(***************************************************************************)
Estimators == << <<1, 1>>, <<2, 1>> >>

\* t.predict(X): sklearn refuses an input of zero samples with a ValueError
PredictRaises(X) == Len(X) = 0

TreePredict(t, X) == [j \in DOMAIN X |-> t[1] * X[j][1].n + t[2] * X[j][2].n]

\* np.exp, on integers: strictly increasing, Exp(a + b) = Exp(a) * Exp(b)
Exp(x) == 2 ^ x

\* np.mean(predictions, axis=0)[j] as a fraction
MeanAxis0(predictions, j) ==
    LET col == [t \in DOMAIN predictions |-> predictions[t][j]]
    IN  Frac(SumSeq(col), Len(col))

\* np.std(predictions, axis=0)[j]: the variance as a fraction, whose square
\* root is the standard deviation
StdAxis0(predictions, j) ==
    LET col == [t \in DOMAIN predictions |-> predictions[t][j]]
        sq  == [t \in DOMAIN col |-> col[t] * col[t]]
    IN  Frac(Len(col) * SumSeq(sq) - SumSeq(col) * SumSeq(col), Len(col) * Len(col))

\* df_data.loc[valid, training_variables]
LocValid(df, valid) ==
    LET idx == SelectSeq([i \in DOMAIN df |-> i], LAMBDA i : valid[i])
    IN  [j \in DOMAIN idx |-> df[idx[j]]]

\* position of row i among the rows selected by the mask
MaskRank(valid, i) == Cardinality({h \in 1..i : valid[h]})

\* energy_prediction[valid.values] = values
MaskAssign(valid, values) ==
    [i \in DOMAIN valid |-> IF valid[i] THEN values[MaskRank(valid, i)] ELSE NaN]

\* lines 71-87 of apply_regression_model for one chunk; the caller has
\* excluded the chunks on which t.predict raises
ChunkPrediction(df_data, log_target, estimators) ==
    LET df    == convert_to_float32(df_data)
        valid == check_valid_rows(df)
        X     == LocValid(df, valid)
        raw   == [t \in DOMAIN estimators |-> TreePredict(estimators[t], X)]
        predictions ==
            IF log_target
            THEN [t \in DOMAIN raw |-> [j \in DOMAIN raw[t] |-> Exp(raw[t][j])]]
            ELSE raw
    IN  [energy_prediction |->
            MaskAssign(valid, [j \in DOMAIN X |-> MeanAxis0(predictions, j)]),
         energy_prediction_std |->
            MaskAssign(valid, [j \in DOMAIN X |-> StdAxis0(predictions, j)])]

\* t.predict also refuses an input whose number of columns is not the number
\* of features the tree was fitted on
ChunkRaises(df_data, columns, mdl) ==
    \/ PredictRaises(LocValid(convert_to_float32(df_data),
                              check_valid_rows(convert_to_float32(df_data))))
    \/ Len(columns) # Len(mdl.feature_names)

(***************************************************************************)
(* fact.io.read_h5py_chunked: the chunks of a table of n rows.             *)
(***************************************************************************)
CeilDiv(a, b) == (a + b - 1) \div b

NumChunks(n, cs) == IF cs = 0 THEN 1 ELSE CeilDiv(n, cs)

ChunkStart(n, cs, i) == IF cs = 0 THEN 0 ELSE i * cs

ChunkEnd(n, cs, i) == IF cs = 0 THEN n ELSE Min(n, (i + 1) * cs)

\* rows start .. end-1 (0-based) of the table
Rows(tbl, start, stop) == [i \in 1..(stop - start) |-> tbl[start + i]]

(***************************************************************************)
(* h5py datasets of the group f[key].                                      *)
(***************************************************************************)
PredictionName == "gamma_energy_prediction"
StdName == "gamma_energy_prediction_std"
SignalName == "gamma_prediction"

NoDatasets == [n \in {} |-> <<>>]

\* del f[key][name]
Del(g, name) == [n \in DOMAIN g \ {name} |-> g[n]]

\* f[key].create_dataset(name, data=values, maxshape=(None,))
CreateDataset(g, name, values) ==
    [n \in DOMAIN g \cup {name} |-> IF n = name THEN values ELSE g[n]]

\* dataset.resize(n, axis=0): new entries hold the fill value 0
Resize(ds, n) == [i \in 1..n |-> IF i <= Len(ds) THEN ds[i] ELSE Fin(0)]

\* dataset[start:stop] = values
WriteSlice(ds, start, stop, values) ==
    [i \in DOMAIN ds |-> IF start < i /\ i <= stop THEN values[i - start] ELSE ds[i]]

\* the chunk written at the head of the grown dataset instead of start:end
AppendChunk_AtHead(g, name, start, stop, values) ==
    LET n_existing == Len(g[name])
        n_new      == Len(values)
    IN  [g EXCEPT ![name] = WriteSlice(Resize(g[name], n_existing + n_new),
                                       0, n_new, values)]

\* lines 92-99: grow the dataset by the chunk and write the chunk at start:end
AppendChunk(g, name, start, stop, values) ==
    LET n_existing == Len(g[name])
        n_new      == Len(values)
    IN  [g EXCEPT ![name] = WriteSlice(Resize(g[name], n_existing + n_new),
                                       start, stop, values)]

(***************************************************************************)
(* train_energy_regressor: the columns of df_train, which are fitted on    *)
(* and pickled as feature_names.                                           *)
(***************************************************************************)
TrainingColumns(cfg) ==
    IF cfg.feature_generation # <<>>
    THEN cfg.training_variables \o Sorted(cfg.feature_generation[1].features)
    ELSE cfg.training_variables

(***************************************************************************)
(* Initial states.                                                         *)
(***************************************************************************)
OldValues(len) == [i \in 1..len |-> Fin(7)]

\* a data file without prediction datasets, or with the pair a former run left
DataFiles ==
    {NoDatasets}
        \cup { CreateDataset(CreateDataset(NoDatasets, PredictionName, OldValues(len)),
                             StdName, OldValues(len)) : len \in 0..MaxOldRows }

SplitIdle ==
    /\ fraction = <<>>
    /\ n_total = 0
    /\ num_events = <<>>
    /\ data = <<>>
    /\ parts = <<>>

TrainIdle ==
    /\ data_read = FALSE
    /\ n_fits = 0
    /\ fold = 0
    /\ cv_predictions = <<>>
    /\ predictions_file = <<>>
    /\ model_file = <<>>

ApplyIdle ==
    /\ answer = "none"
    /\ model_loaded = FALSE
    /\ n_chunks = 0
    /\ end = 0
    /\ predict_columns = <<>>
    /\ existing_checked = FALSE

InitRegression ==
    /\ cmd = "apply_regression_model"
    /\ pc = "start"
    /\ config \in Configs
    /\ table \in Tables
    /\ chunksize \in 0..MaxChunkSize
    /\ yes \in BOOLEAN
    /\ model = [feature_names |-> TrainingColumns(config), estimators_ |-> Estimators]
    /\ f \in DataFiles
    /\ f0 = f
    /\ ApplyIdle
    /\ SplitIdle
    /\ TrainIdle

(***************************************************************************)
(* apply_regression_model.main                                             *)
(***************************************************************************)
\* the datasets deleted before the user is asked
RegCheckExisting_DeleteFirst ==
    /\ cmd = "apply_regression_model"
    /\ pc = "start"
    /\ IF PredictionName \in DOMAIN f
       THEN /\ f' = Del(Del(f, PredictionName), StdName)
            /\ \/ yes /\ answer' = answer /\ pc' = "load"
               \/ ~yes /\ answer' = "y" /\ pc' = "load"
               \/ ~yes /\ answer' = "n" /\ pc' = "aborted"
       ELSE /\ answer' = answer
            /\ f' = f
            /\ pc' = "load"
    /\ UNCHANGED <<runVars, model_loaded, n_chunks, end, predict_columns,
                   existing_checked, splitVars, trainVars>>

\* lines 36-52: read the configuration, then delete the existing datasets,
\* asking first unless --yes was given
RegCheckExisting ==
    /\ cmd = "apply_regression_model"
    /\ pc = "start"
    /\ IF PredictionName \in DOMAIN f
       THEN \/ /\ yes
               /\ answer' = answer
               /\ f' = Del(Del(f, PredictionName), StdName)
               /\ pc' = IF StdName \in DOMAIN f THEN "load" ELSE "error"
            \/ /\ ~yes
               /\ \E a \in {"y", "n"} :
                    /\ answer' = a
                    /\ IF a = "n"
                       THEN f' = f /\ pc' = "aborted"
                       ELSE /\ f' = Del(Del(f, PredictionName), StdName)
                            /\ pc' = IF StdName \in DOMAIN f THEN "load" ELSE "error"
       ELSE /\ answer' = answer
            /\ f' = f
            /\ pc' = "load"
    /\ UNCHANGED <<runVars, model_loaded, n_chunks, end, predict_columns,
                   existing_checked, splitVars, trainVars>>

\* lines 54-66: load the model and set up the chunk generator
RegLoadModel ==
    /\ cmd = "apply_regression_model"
    /\ pc = "load"
    /\ model_loaded' = TRUE
    /\ pc' = "loop"
    /\ UNCHANGED <<runVars, answer, f, n_chunks, end, predict_columns,
                   existing_checked, splitVars, trainVars>>

\* the std dataset left as the first chunk created it
WriteChunk_StdNotGrown(g, start, stop, pred) ==
    IF PredictionName \in DOMAIN g
    THEN AppendChunk(g, PredictionName, start, stop, pred.energy_prediction)
    ELSE CreateDataset(CreateDataset(g, PredictionName, pred.energy_prediction),
                       StdName, pred.energy_prediction_std)

\* lines 89-106: write the predictions of one chunk into the file
WriteChunk(g, start, stop, pred) ==
    IF PredictionName \in DOMAIN g
    THEN AppendChunk(AppendChunk(g, PredictionName, start, stop, pred.energy_prediction),
                     StdName, start, stop, pred.energy_prediction_std)
    ELSE CreateDataset(CreateDataset(g, PredictionName, pred.energy_prediction),
                       StdName, pred.energy_prediction_std)

\* lines 69-106: one iteration of the chunk loop
RegChunk ==
    /\ cmd = "apply_regression_model"
    /\ pc = "loop"
    /\ n_chunks < NumChunks(Len(table), chunksize)
    /\ LET start   == ChunkStart(Len(table), chunksize, n_chunks)
           stop    == ChunkEnd(Len(table), chunksize, n_chunks)
           df_data == Rows(table, start, stop)
       IN  /\ predict_columns' = config.training_variables
           /\ IF ChunkRaises(df_data, config.training_variables, model)
              THEN /\ pc' = "error"
                   /\ UNCHANGED <<f, n_chunks, end>>
              ELSE /\ f' = WriteChunk(f, start, stop,
                                      ChunkPrediction(df_data, config.log_target,
                                                      model.estimators_))
                   /\ n_chunks' = n_chunks + 1
                   /\ end' = stop
                   /\ pc' = "loop"
    /\ UNCHANGED <<runVars, answer, model_loaded, existing_checked, splitVars, trainVars>>

\* line 69: the generator is exhausted
RegLoopEnd ==
    /\ cmd = "apply_regression_model"
    /\ pc = "loop"
    /\ n_chunks = NumChunks(Len(table), chunksize)
    /\ pc' = "done"
    /\ UNCHANGED <<runVars, answer, model_loaded, f, n_chunks, end, predict_columns,
                   existing_checked, splitVars, trainVars>>

NextRegression == RegCheckExisting \/ RegLoadModel \/ RegChunk \/ RegLoopEnd

SpecRegression == InitRegression /\ [][NextRegression]_vars

(***************************************************************************)
(* Properties of apply_regression_model.                                   *)
(***************************************************************************)
Regression == cmd = "apply_regression_model"

\* the file a run leaves that reads the whole table as one chunk
SinglePass(tbl, cfg, mdl) ==
    IF ChunkRaises(tbl, cfg.training_variables, mdl)
    THEN NoDatasets
    ELSE WriteChunk(NoDatasets, 0, Len(tbl),
                    ChunkPrediction(tbl, cfg.log_target, mdl.estimators_))

\* the two output values of one row, predicted on its own
RowExpected(row) ==
    IF check_valid_rows(convert_to_float32(<<row>>))[1]
    THEN LET p == ChunkPrediction(<<row>>, config.log_target, model.estimators_)
         IN  <<p.energy_prediction[1], p.energy_prediction_std[1]>>
    ELSE <<NaN, NaN>>

RowInvalid(row) == \E j \in DOMAIN row : ~IsFinite(ToFloat32(row[j]))

\* train_energy_regressor accepts the configuration
Trainable(cfg) ==
    find_used_source_features(cfg.training_variables, cfg.feature_generation) = {}

\* C1: when the chunk loop has finished, the two datasets in the file are
\* those a single pass over the whole table as one chunk produces.
C1_ChunkedEqualsSinglePass ==
    (Regression /\ pc = "done") => f = SinglePass(table, config, model)

\* a finished run of several chunks, the last one shorter, with an invalid row
C1_Witness ==
    /\ Regression
    /\ pc = "done"
    /\ n_chunks >= 2
    /\ Len(table) % chunksize # 0
    /\ \E i \in DOMAIN table : RowInvalid(table[i])

\* C2: a run that has started predicting, with a model fitted on the
\* training variables, ends with one entry per input row in both datasets,
\* at the row's position, and the rows with an invalid feature value hold
\* NaN in both.
C2_EveryRowKeptInvalidNaN ==
    (/\ Regression
     /\ Trainable(config)
     /\ model.feature_names = config.training_variables
     /\ pc \in {"done", "error"}) =>
        \A i \in DOMAIN table :
            /\ PredictionName \in DOMAIN f
            /\ StdName \in DOMAIN f
            /\ Len(f[PredictionName]) = Len(table)
            /\ Len(f[StdName]) = Len(table)
            /\ RowInvalid(table[i]) =>
                  f[PredictionName][i] = NaN /\ f[StdName][i] = NaN

\* C3: between two chunk iterations, once a chunk was processed, both
\* datasets exist with the length `end` of the last chunk and hold the values
\* of the rows processed so far, in row order.
C3_DurablePrefix ==
    (Regression /\ pc \in {"loop", "done", "error"} /\ n_chunks >= 1) =>
        /\ PredictionName \in DOMAIN f
        /\ StdName \in DOMAIN f
        /\ Len(f[PredictionName]) = end
        /\ Len(f[StdName]) = end
        /\ end = ChunkEnd(Len(table), chunksize, n_chunks - 1)
        /\ \A i \in 1..end :
              <<f[PredictionName][i], f[StdName][i]>> = RowExpected(table[i])

\* the run stands between two chunks, with rows still to come
C3_Witness ==
    /\ Regression
    /\ pc = "loop"
    /\ n_chunks >= 2
    /\ end < Len(table)

\* C4: with a source dependent feature among the training variables the run
\* aborts and no prediction is written.
C4_SourceFeaturesAbort ==
    (Regression /\ has_source_dependent_columns(Range(config.training_variables))) =>
        /\ n_chunks = 0
        /\ pc # "done"

\* C5: when the prediction dataset exists, --yes is not given and the user
\* declines, the run aborts with both old datasets untouched, the model not
\* loaded and no chunk predicted or written.
C5_DeclineLeavesFile ==
    (Regression /\ PredictionName \in DOMAIN f0 /\ ~yes /\ answer = "n") =>
        /\ pc = "aborted"
        /\ f = f0
        /\ {PredictionName, StdName} \subseteq DOMAIN f
        /\ ~model_loaded
        /\ n_chunks = 0
        /\ predict_columns = <<>>

\* the user declined to overwrite a non-empty dataset
C5_Witness ==
    /\ Regression
    /\ answer = "n"
    /\ pc = "aborted"
    /\ Len(f[PredictionName]) >= 1

\* C10: the columns passed to the model for prediction are the feature names
\* stored in the bundle trained from the same configuration, in order.
C10_SameFeatureOrder ==
    (Regression /\ Trainable(config) /\ predict_columns # <<>>) =>
        predict_columns = model.feature_names

(***************************************************************************)
(* split_data.main.  A fraction is the numerator of a multiple of          *)
(* 1/FracDen, which binary floating point holds exactly, so that           *)
(* n_total * f is the exact product.  A row is known by its position in    *)
(* the input.                                                              *)
(***************************************************************************)
FracDen == 2 ^ FracBits

RunIdle ==
    /\ config = Config(<<>>, FALSE, NoGeneration, 0)
    /\ table = <<>>
    /\ chunksize = 0
    /\ yes = FALSE
    /\ model = [feature_names |-> <<>>, estimators_ |-> <<>>]
    /\ f = NoDatasets
    /\ f0 = NoDatasets

InitSplit ==
    /\ cmd = "split_data"
    /\ pc = "start"
    /\ \E n \in 0..MaxTotal : data = [i \in 1..n |-> i]
    /\ fraction \in SeqsUpTo(0..FracDen, MaxParts)
    /\ n_total = 0
    /\ num_events = <<>>
    /\ parts = <<>>
    /\ RunIdle
    /\ ApplyIdle
    /\ TrainIdle

\* int(round(n * f)) for f = k / FracDen: python 3 rounds a half to even
Round(n, k) ==
    LET q == (n * k) \div FracDen
        r == (n * k) % FracDen
    IN  IF 2 * r < FracDen THEN q
        ELSE IF 2 * r > FracDen THEN q + 1
        ELSE IF q % 2 = 0 THEN q ELSE q + 1

\* the overflow taken from the first count instead of the last
NumEvents_FromFirst(n, fractions) ==
    LET rounded  == [i \in DOMAIN fractions |-> Round(n, fractions[i])]
        overflow == SumSeq(rounded) - n
    IN  IF overflow > 0
        THEN [rounded EXCEPT ![1] = @ - overflow]
        ELSE rounded

\* lines 45-48: the rounded counts, the last one reduced by the overflow
NumEvents(n, fractions) ==
    LET rounded  == [i \in DOMAIN fractions |-> Round(n, fractions[i])]
        overflow == SumSeq(rounded) - n
    IN  IF overflow > 0
        THEN [rounded EXCEPT ![Len(rounded)] = @ - overflow]
        ELSE rounded

\* lines 35-48
SplitCounts ==
    /\ cmd = "split_data"
    /\ pc = "start"
    /\ n_total' = Len(data)
    /\ num_events' = NumEvents(Len(data), fraction)
    /\ pc' = "parts"
    /\ UNCHANGED <<runVars, answer, f, model_loaded, n_chunks, end, predict_columns,
                   existing_checked, fraction, data, parts, trainVars>>

\* data.iloc[positions]
Iloc(df, positions) ==
    LET idx == SelectSeq([i \in DOMAIN df |-> i], LAMBDA i : i \in positions)
    IN  [j \in DOMAIN idx |-> df[idx[j]]]

\* the pool left as it was
Remaining_Unchanged(df, selected) == df

\* line 66: the rows that were not selected stay in the pool
Remaining(df, selected) == Iloc(df, DOMAIN df \ selected)

\* lines 50-66: one iteration of the loop over the parts.  np.random.choice
\* raises for a negative size and for a size above the pool; for an empty pool
\* it raises or returns nothing, depending on the numpy version.
SplitPart ==
    /\ cmd = "split_data"
    /\ pc = "parts"
    /\ Len(parts) < Len(num_events)
    /\ LET n == num_events[Len(parts) + 1]
       IN  \/ /\ n < 0 \/ n > Len(data) \/ Len(data) = 0
              /\ pc' = "error"
              /\ UNCHANGED <<data, parts>>
           \/ /\ n >= 0
              /\ \E selected \in SUBSET DOMAIN data :
                    /\ Cardinality(selected) = n
                    /\ parts' = Append(parts, Iloc(data, selected))
                    /\ data' = Remaining(data, selected)
              /\ pc' = "parts"
    /\ UNCHANGED <<runVars, answer, f, model_loaded, n_chunks, end, predict_columns,
                   existing_checked, fraction, n_total, num_events, trainVars>>

\* line 50: every part is written
SplitEnd ==
    /\ cmd = "split_data"
    /\ pc = "parts"
    /\ Len(parts) = Len(num_events)
    /\ pc' = "done"
    /\ UNCHANGED <<runVars, answer, f, model_loaded, n_chunks, end, predict_columns,
                   existing_checked, splitVars, trainVars>>

NextSplit == SplitCounts \/ SplitPart \/ SplitEnd

SpecSplit == InitSplit /\ [][NextSplit]_vars

(***************************************************************************)
(* Properties of split_data.                                               *)
(***************************************************************************)
Split == cmd = "split_data"

Abs(x) == IF x < 0 THEN -x ELSE x

Max(a, b) == IF a > b THEN a ELSE b

PartSizes == [i \in DOMAIN parts |-> Len(parts[i])]

\* |rows - n_total * fraction[i]| <= 1, in units of 1/FracDen
WithinOneRow(rows, i) == Abs(FracDen * rows - n_total * fraction[i]) <= FracDen

\* sum of the rounded counts above n_total, 0 when there is none
Overflow ==
    Max(0, SumSeq([i \in DOMAIN fraction |-> Round(n_total, fraction[i])]) - n_total)

\* C6: the written parts hold no row twice, share no row, and their sizes
\* sum to at most the input row count.
C6_PartsDisjoint ==
    Split =>
        /\ \A i \in DOMAIN parts :
              \A a, b \in DOMAIN parts[i] : a # b => parts[i][a] # parts[i][b]
        /\ \A i, j \in DOMAIN parts :
              i # j => Range(parts[i]) \cap Range(parts[j]) = {}
        /\ SumSeq(PartSizes) <= n_total

\* a completed run with three non-empty parts
C6_Witness ==
    /\ Split
    /\ pc = "done"
    /\ Len(parts) = 3
    /\ \A i \in DOMAIN parts : Len(parts[i]) >= 1

\* C7 as stated: every written part, the last included, is within one row
\* of n_total * fraction.
C7_EveryPartWithinOneRow ==
    Split => \A i \in DOMAIN parts : WithinOneRow(Len(parts[i]), i)

\* C7 amended: every part but the last is within one row of
\* n_total * fraction; the last is within one row of it once the overflow
\* that was taken from it is added back.
C7_LastPartCarriesOverflow ==
    Split =>
        \A i \in DOMAIN parts :
            IF i < Len(fraction)
            THEN WithinOneRow(Len(parts[i]), i)
            ELSE WithinOneRow(Len(parts[i]) + Overflow, i)

\* a completed run whose last part gave up rows to the overflow
C7_Witness ==
    /\ Split
    /\ pc = "done"
    /\ Len(parts) >= 2
    /\ Overflow >= 1
    /\ Len(parts[1]) >= 1

\* C8: when the fractions do not sum to 1, every count is between 0 and the
\* size of the pool when it is drawn, and a completed run wrote every part.
C8_CountsFitThePool ==
    (Split /\ SumSeq(fraction) # FracDen) =>
        /\ (pc = "parts" /\ Len(parts) < Len(num_events)) =>
              /\ num_events[Len(parts) + 1] >= 0
              /\ num_events[Len(parts) + 1] <= Len(data)
        /\ pc = "done" => Len(parts) = Len(fraction)

(***************************************************************************)
(* train_energy_regressor.main                                             *)
(***************************************************************************)
SeparationFiles ==
    {NoDatasets}
        \cup {CreateDataset(NoDatasets, SignalName, OldValues(len)) : len \in 0..MaxOldRows}

InitTrain ==
    /\ cmd \in {"train_energy_regressor", "apply_separation_model"}
    /\ pc = "start"
    /\ config \in Configs
    /\ table \in Tables
    /\ chunksize \in IF cmd = "apply_separation_model" THEN 0..MaxChunkSize ELSE {0}
    /\ yes \in IF cmd = "apply_separation_model" THEN BOOLEAN ELSE {FALSE}
    /\ model = [feature_names |-> TrainingColumns(config), estimators_ |-> Estimators]
    /\ f \in IF cmd = "apply_separation_model" THEN SeparationFiles ELSE {NoDatasets}
    /\ f0 = f
    /\ ApplyIdle
    /\ SplitIdle
    /\ TrainIdle

\* the source dependent features are not looked for
TrainCheckFeatures_NoCheck ==
    /\ cmd = "train_energy_regressor"
    /\ pc = "start"
    /\ pc' = "read"
    /\ UNCHANGED <<runVars, answer, f, model_loaded, n_chunks, end, predict_columns,
                   existing_checked, splitVars, trainVars>>

\* lines 45-72: read the configuration and refuse source dependent features
TrainCheckFeatures ==
    /\ cmd = "train_energy_regressor"
    /\ pc = "start"
    /\ pc' = IF find_used_source_features(config.training_variables,
                                          config.feature_generation) # {}
             THEN "config_error"
             ELSE "read"
    /\ UNCHANGED <<runVars, answer, f, model_loaded, n_chunks, end, predict_columns,
                   existing_checked, splitVars, trainVars>>

\* lines 89-90: the rows of the float32 frame without a NaN
DfTrain(tbl) ==
    LET df == convert_to_float32(tbl)
    IN  SelectSeq(df, LAMBDA row : \A j \in DOMAIN row : row[j].k # "nan")

\* lines 74-108: read the data and build df_train and the target
TrainReadData ==
    /\ cmd = "train_energy_regressor"
    /\ pc = "read"
    /\ data_read' = TRUE
    /\ pc' = "cv"
    /\ UNCHANGED <<runVars, answer, f, model_loaded, n_chunks, end, predict_columns,
                   existing_checked, splitVars, n_fits, fold, cv_predictions,
                   predictions_file, model_file>>

\* sklearn KFold: the size of the held-out part of fold i (0-based) of n rows
TestSize(n, n_splits, i) == n \div n_splits + (IF i < n % n_splits THEN 1 ELSE 0)

\* lines 110-128: one fold; KFold.split raises with fewer rows than folds
TrainFold ==
    /\ cmd = "train_energy_regressor"
    /\ pc = "cv"
    /\ fold < config.n_cross_validations
    /\ LET n == Len(DfTrain(table))
       IN  IF n < config.n_cross_validations
           THEN /\ pc' = "error"
                /\ UNCHANGED <<n_fits, fold, cv_predictions>>
           ELSE /\ n_fits' = n_fits + 1
                /\ cv_predictions' =
                      Append(cv_predictions,
                             [cv_fold |-> fold,
                              rows |-> TestSize(n, config.n_cross_validations, fold)])
                /\ fold' = fold + 1
                /\ pc' = "cv"
    /\ UNCHANGED <<runVars, answer, f, model_loaded, n_chunks, end, predict_columns,
                   existing_checked, splitVars, data_read, predictions_file, model_file>>

\* lines 130-139: write the predictions of the cross validation
TrainWritePredictions ==
    /\ cmd = "train_energy_regressor"
    /\ pc = "cv"
    /\ fold = config.n_cross_validations
    /\ predictions_file' = <<cv_predictions>>
    /\ pc' = "fit"
    /\ UNCHANGED <<runVars, answer, f, model_loaded, n_chunks, end, predict_columns,
                   existing_checked, splitVars, data_read, n_fits, fold,
                   cv_predictions, model_file>>

\* lines 141-142: fit on the complete data set
TrainFinalFit ==
    /\ cmd = "train_energy_regressor"
    /\ pc = "fit"
    /\ n_fits' = n_fits + 1
    /\ pc' = "pickle"
    /\ UNCHANGED <<runVars, answer, f, model_loaded, n_chunks, end, predict_columns,
                   existing_checked, splitVars, data_read, fold, cv_predictions,
                   predictions_file, model_file>>

\* lines 144-150: pickle the model with the columns of df_train
TrainPickle ==
    /\ cmd = "train_energy_regressor"
    /\ pc = "pickle"
    /\ model_file' = <<[feature_names |-> TrainingColumns(config),
                        label_text |-> "estimated_energy"]>>
    /\ pc' = "done"
    /\ UNCHANGED <<runVars, answer, f, model_loaded, n_chunks, end, predict_columns,
                   existing_checked, splitVars, data_read, n_fits, fold,
                   cv_predictions, predictions_file>>

(***************************************************************************)
(* apply_separation_model.main                                             *)
(***************************************************************************)
\* lines 42-47: read the configuration and refuse source dependent features
SepCheckFeatures ==
    /\ cmd = "apply_separation_model"
    /\ pc = "start"
    /\ pc' = IF has_source_dependent_columns(columns_to_read(config))
             THEN "config_error"
             ELSE "check_existing"
    /\ UNCHANGED <<runVars, answer, f, model_loaded, n_chunks, end, predict_columns,
                   existing_checked, splitVars, trainVars>>

\* line 49, ..io.check_existing_column: delete the existing column, asking
\* first unless --yes was given
SepCheckExisting ==
    /\ cmd = "apply_separation_model"
    /\ pc = "check_existing"
    /\ existing_checked' = TRUE
    /\ IF SignalName \in DOMAIN f
       THEN \/ /\ yes
               /\ answer' = answer
               /\ f' = Del(f, SignalName)
               /\ pc' = "load"
            \/ /\ ~yes
               /\ \E a \in {"y", "n"} :
                    /\ answer' = a
                    /\ IF a = "n"
                       THEN f' = f /\ pc' = "aborted"
                       ELSE f' = Del(f, SignalName) /\ pc' = "load"
       ELSE /\ answer' = answer
            /\ f' = f
            /\ pc' = "load"
    /\ UNCHANGED <<runVars, model_loaded, n_chunks, end, predict_columns,
                   splitVars, trainVars>>

\* lines 51-55: load the model and set up the chunk generator
SepLoadModel ==
    /\ cmd = "apply_separation_model"
    /\ pc = "load"
    /\ model_loaded' = TRUE
    /\ pc' = "loop"
    /\ UNCHANGED <<runVars, answer, f, n_chunks, end, predict_columns,
                   existing_checked, splitVars, trainVars>>

\* ..apply.predict: the probability of the signal class for the valid rows,
\* NaN for the others
predict(df_data, mdl) ==
    LET df    == convert_to_float32(df_data)
        valid == check_valid_rows(df)
    IN  [i \in DOMAIN df |->
            IF valid[i]
            THEN Frac(df[i][1].n, df[i][1].n + df[i][2].n)
            ELSE NaN]

\* ..io.append_to_h5py: create the column or grow it by the new values
append_to_h5py(g, values, name) ==
    IF name \in DOMAIN g
    THEN [g EXCEPT ![name] = WriteSlice(Resize(g[name], Len(g[name]) + Len(values)),
                                        Len(g[name]), Len(g[name]) + Len(values),
                                        values)]
    ELSE CreateDataset(g, name, values)

\* lines 59-67: one iteration of the chunk loop
SepChunk ==
    /\ cmd = "apply_separation_model"
    /\ pc = "loop"
    /\ n_chunks < NumChunks(Len(table), chunksize)
    /\ LET start   == ChunkStart(Len(table), chunksize, n_chunks)
           stop    == ChunkEnd(Len(table), chunksize, n_chunks)
           df_data == Rows(table, start, stop)
       IN  /\ predict_columns' = config.training_variables
           /\ f' = append_to_h5py(f, predict(df_data, model), SignalName)
           /\ n_chunks' = n_chunks + 1
           /\ end' = stop
    /\ pc' = "loop"
    /\ UNCHANGED <<runVars, answer, model_loaded, existing_checked, splitVars, trainVars>>

\* line 59: the generator is exhausted
SepLoopEnd ==
    /\ cmd = "apply_separation_model"
    /\ pc = "loop"
    /\ n_chunks = NumChunks(Len(table), chunksize)
    /\ pc' = "done"
    /\ UNCHANGED <<runVars, answer, model_loaded, f, n_chunks, end, predict_columns,
                   existing_checked, splitVars, trainVars>>

NextTrain ==
    \/ TrainCheckFeatures \/ TrainReadData \/ TrainFold \/ TrainWritePredictions
    \/ TrainFinalFit \/ TrainPickle
    \/ SepCheckFeatures \/ SepCheckExisting \/ SepLoadModel \/ SepChunk \/ SepLoopEnd

SpecTrain == InitTrain /\ [][NextTrain]_vars

(***************************************************************************)
(* Properties of the source feature check.                                 *)
(***************************************************************************)
\* C9: with source dependent features configured, train_energy_regressor
\* stops before the data is read, before any fit and before the predictions
\* or the model are written; apply_separation_model stops before the check
\* of the existing column, before the model is loaded and before any chunk
\* is written, with the data file as it was.
C9_SourceFeaturesStopFirst ==
    /\ (/\ cmd = "train_energy_regressor"
        /\ find_used_source_features(config.training_variables,
                                     config.feature_generation) # {}) =>
            /\ pc \in {"start", "config_error"}
            /\ ~data_read
            /\ n_fits = 0
            /\ fold = 0
            /\ predictions_file = <<>>
            /\ model_file = <<>>
    /\ (/\ cmd = "apply_separation_model"
        /\ has_source_dependent_columns(columns_to_read(config))) =>
            /\ pc \in {"start", "config_error"}
            /\ ~existing_checked
            /\ ~model_loaded
            /\ n_chunks = 0
            /\ f = f0

\* apply_separation_model refused the configuration of a file that holds
\* the prediction column already
C9_Witness ==
    /\ cmd = "apply_separation_model"
    /\ pc = "config_error"
    /\ SignalName \in DOMAIN f
    /\ Len(f[SignalName]) >= 1

====
